---- MODULE Spec2Model ----
(***************************************************************************)
(* A model of llmap: the incremental update pipeline of cli.py (state      *)
(* load, change detection, grouping, generation, state update and save)    *)
(* and the module dependency graph of modules.py.                          *)
(***************************************************************************)
EXTENDS Integers, Sequences, FiniteSets, TLC

----------------------------------------------------------------------------
(* Bounds of the model.                                                     *)

\* How many times the update command is invoked in one behaviour.
MaxRuns == 2
\* How many times the environment acts (edits a file, corrupts the state file).
MaxEnv == 1
\* File contents are drawn from 1..MaxContent.
MaxContent == 2

\* The imports of the parsed files of one project, at most.
MaxImports == 2

\* The files of one batch given to group_files, at most.
MaxBatch == 4
MaxItems == 2

----------------------------------------------------------------------------
(* Values.                                                                  *)

\* Python's None where an integer-coded value (a digest, a timestamp) may stand.
None == -1

\* The concurrent invocations of the command line that the model follows.
Procs == {1, 2}

\* Root-relative paths of the files the include/exclude rules let through,
\* as pathlib's `parts`.
Paths ==
  { <<"src", "parser", "a.cpp">>,
    <<"src", "parser", "b.cpp">>,
    <<"src", "codegen", "c.cpp">> }

Contents == 1 .. MaxContent

\* A file that does not exist.
Absent == [content |-> 0, mtime |-> 0, readable |-> TRUE]

RECURSIVE JoinWith(_, _)
\* sep.join(parts)
JoinWith(parts, sep) ==
  IF Len(parts) = 0 THEN ""
  ELSE IF Len(parts) = 1 THEN parts[1]
  ELSE parts[1] \o sep \o JoinWith(Tail(parts), sep)

\* str(path.relative_to(root))
RelPath(p) == JoinWith(p, "/")

\* The sha256 digest of a content, coded as an integer: injective on the
\* contents, and not monotone in them.
HashFile(c) == (c * 7) % 10

\* Sequence to set.
Range(s) == { s[i] : i \in 1 .. Len(s) }

\* All orders in which the members of a finite set can be listed.
Perms(S) ==
  { s \in [1 .. Cardinality(S) -> S] : \A x \in S : \E i \in DOMAIN s : s[i] = x }

----------------------------------------------------------------------------
(* The persisted state (state.py).                                          *)

\* State(): the empty default state.
DefaultState ==
  [version |-> 1, last_run |-> None, files |-> << >>, modules |-> << >>]

\* dict.get(key, default) on a parsed JSON object.
Get(d, key, default) == IF key \in DOMAIN d THEN d[key] ELSE default

\* StateManager._load, lines 48-65: the state built from a parsed JSON object,
\* or the exception a missing "hash"/"module"/"generated_at"/"source_hashes"
\* key raises.
FromJson(data) ==
  LET files == Get(data, "files", << >>)
      modules == Get(data, "modules", << >>)
      bad ==
        \/ \E p \in DOMAIN files : ~({"hash", "module"} \subseteq DOMAIN files[p])
        \/ \E m \in DOMAIN modules :
             ~({"generated_at", "source_hashes"} \subseteq DOMAIN modules[m])
  IN IF bad THEN [raised |-> TRUE, state |-> DefaultState]
     ELSE [raised |-> FALSE,
           state |->
             [version |-> Get(data, "version", 1),
              last_run |-> Get(data, "last_run", None),
              files |->
                [p \in DOMAIN files |->
                   [hash |-> files[p].hash, module |-> files[p].module]],
              modules |->
                [m \in DOMAIN modules |->
                   [generated_at |-> modules[m].generated_at,
                    source_hashes |-> modules[m].source_hashes]]]]

\* StateManager._load: the state read from the state file.  The file is
\* "missing", "unreadable" (open raises IOError), holds text that is no JSON
\* ("empty", "invalid"), JSON that is no object ("nonobject", on
\* which data.get raises AttributeError) or a JSON "object".
Load(file) ==
  CASE file.kind = "missing" -> [raised |-> FALSE, state |-> DefaultState]
    [] file.kind \in {"unreadable", "empty", "invalid"} ->
         [raised |-> FALSE, state |-> DefaultState]
    [] file.kind = "nonobject" -> [raised |-> TRUE, state |-> DefaultState]
    [] OTHER -> FromJson(file.doc)

\* StateManager.get_file_hash
GetFileHash(state, filepath) ==
  IF filepath \in DOMAIN state.files THEN state.files[filepath].hash ELSE None

\* StateManager.save, lines 101-112: the JSON object written.
ToJson(state) ==
  [version |-> state.version,
   last_run |-> state.last_run,
   files |->
     [p \in DOMAIN state.files |->
        [hash |-> state.files[p].hash, module |-> state.files[p].module]],
   modules |->
     [m \in DOMAIN state.modules |->
        [generated_at |-> state.modules[m].generated_at,
         source_hashes |-> state.modules[m].source_hashes]]]

\* A state file with no JSON object in it.
NoDoc(kind) == [kind |-> kind, doc |-> << >>, len |-> 0]

\* The file holding exactly the text of `state`.
Complete(state) == [kind |-> "object", doc |-> ToJson(state), len |-> 0]

\* The file holding a text followed by what is left of a longer one, n
\* characters in all: no JSON.
Garbage(n) == [kind |-> "invalid", doc |-> << >>, len |-> n]

\* The characters of a digest, "sha256:" and 64 hexadecimal digits.
HashLen == 71

\* The characters of a timestamp, datetime.utcnow().isoformat() + "Z".
TsLen == 27

RECURSIVE FilesLen(_)
\* The characters json.dump(indent=2) writes for the entries of "files".
FilesLen(files) ==
  IF DOMAIN files = {} THEN 0
  ELSE LET p == CHOOSE q \in DOMAIN files : TRUE
           rest == [q \in DOMAIN files \ {p} |-> files[q]]
       IN Len(p) + Len(files[p].module) + HashLen + 53
          + (IF DOMAIN rest = {} THEN 0 ELSE 1) + FilesLen(rest)

RECURSIVE ModulesLen(_)
\* The characters json.dump(indent=2) writes for the entries of "modules".
ModulesLen(modules) ==
  IF DOMAIN modules = {} THEN 0
  ELSE LET m == CHOOSE q \in DOMAIN modules : TRUE
           rest == [q \in DOMAIN modules \ {m} |-> modules[q]]
           n == Len(modules[m].source_hashes)
       IN Len(m) + TsLen + 42
          + (IF n = 0 THEN 26 ELSE 32 + n * (HashLen + 12))
          + (IF DOMAIN rest = {} THEN 0 ELSE 1) + ModulesLen(rest)

\* len(text) of the text json.dump(data, f, indent=2) writes for the object
\* save builds.
TextLen(data) ==
  18
  + (IF data.last_run = None THEN 20 ELSE TsLen + 18)
  + (IF DOMAIN data.files = {} THEN 15 ELSE 18 + FilesLen(data.files))
  + (IF DOMAIN data.modules = {} THEN 16 ELSE 19 + ModulesLen(data.modules))
  + 1

----------------------------------------------------------------------------
(* Module grouping (modules.py).                                            *)

\* Path.with_suffix(""): the file name without its last extension.
WithoutSuffix(name) ==
  CASE name = "a.cpp" -> "a"
    [] name = "b.cpp" -> "b"
    [] name = "c.cpp" -> "c"
    [] name = "a.h" -> "a"
    [] name = "b.h" -> "b"
    [] name = "util.h" -> "util"
    [] name = "main.cpp" -> "main"
    [] OTHER -> name

\* parts[:n], for 0 <= n <= len(parts)
Prefix(parts, n) == SubSeq(parts, 1, n)

\* path.parent
Parent(parts) == SubSeq(parts, 1, Len(parts) - 1)

\* path.name
BaseName(parts) == parts[Len(parts)]

\* GetModuleName with a bug: under the directory strategy every path no
\* deeper than the depth goes to "root".
GetModuleNameShallowRoot(cfg, parts) ==
  IF cfg.strategy = "directory"
  THEN IF Len(parts) > cfg.depth THEN JoinWith(Prefix(parts, cfg.depth), "/")
       ELSE "root"
  ELSE IF cfg.strategy = "file"
  THEN JoinWith(Parent(parts) \o << WithoutSuffix(BaseName(parts)) >>, "/")
  ELSE IF Len(parts) > 1 THEN JoinWith(Parent(parts), "/")
  ELSE "root"

\* ModuleGrouper._get_module_name
GetModuleName(cfg, parts) ==
  IF cfg.strategy = "directory"
  THEN IF Len(parts) > cfg.depth THEN JoinWith(Prefix(parts, cfg.depth), "/")
       ELSE IF Len(parts) > 1 THEN JoinWith(Parent(parts), "/")
       ELSE "root"
  ELSE IF cfg.strategy = "file"
  THEN JoinWith(Parent(parts) \o << WithoutSuffix(BaseName(parts)) >>, "/")
  ELSE IF Len(parts) > 1 THEN JoinWith(Parent(parts), "/")
  ELSE "root"

\* ModuleGrouper.group_files, lines 69-80: the path of a module created for
\* the file `parts`, relative to the root.
ModulePath(cfg, parts) ==
  IF cfg.strategy = "directory" /\ Len(parts) > cfg.depth
  THEN Prefix(parts, cfg.depth)
  ELSE Parent(parts)

\* Module(name=..., path=...), with Module.add_file applied to its first file.
NewModule(name, path, file) ==
  [name |-> name, path |-> path, files |-> << file >>,
   dependencies |-> {}, dependents |-> {}]

\* The index in `modules` of the module called `name`, 0 when there is none.
IndexOf(modules, name) ==
  IF \E i \in DOMAIN modules : modules[i].name = name
  THEN CHOOSE i \in DOMAIN modules : modules[i].name = name
  ELSE 0

\* GroupOne with a bug: a file of a new module joins the module made last.
GroupOneIntoLast(cfg, modules, file) ==
  LET name == GetModuleName(cfg, file[1])
      i == IndexOf(modules, name)
  IN IF i = 0 /\ Len(modules) = 0
     THEN Append(modules, NewModule(name, ModulePath(cfg, file[1]), file))
     ELSE [modules EXCEPT ![IF i = 0 THEN Len(modules) ELSE i].files =
                            Append(@, file)]

\* GroupOne with a bug: a file joins its module at the front.
GroupOnePrepends(cfg, modules, file) ==
  LET name == GetModuleName(cfg, file[1])
      i == IndexOf(modules, name)
  IN IF i = 0
     THEN Append(modules, NewModule(name, ModulePath(cfg, file[1]), file))
     ELSE [modules EXCEPT ![i].files = << file >> \o @]

\* One iteration of the loop of group_files over (path, hash).
GroupOne(cfg, modules, file) ==
  LET name == GetModuleName(cfg, file[1])
      i == IndexOf(modules, name)
  IN IF i = 0
     THEN Append(modules, NewModule(name, ModulePath(cfg, file[1]), file))
     ELSE [modules EXCEPT ![i].files = Append(@, file)]

RECURSIVE GroupFrom(_, _, _)
GroupFrom(cfg, modules, files) ==
  IF Len(files) = 0 THEN modules
  ELSE GroupFrom(cfg, GroupOne(cfg, modules, Head(files)), Tail(files))

\* ModuleGrouper.group_files: the modules, in first-seen order.
GroupFiles(cfg, files) == GroupFrom(cfg, << >>, files)

----------------------------------------------------------------------------
(* Dependency resolution (modules.py).                                      *)

\* Path.cwd(), the project root, as pathlib's parts below "/".
RootParts == << "home", "proj" >>

\* str(path), for a path relative to the root.
StrPath(parts) == IF Len(parts) = 0 THEN "." ELSE JoinWith(parts, "/")

\* resolve_import's result: None, or a module name.
NoModule == << >>
Resolved(name) == << name >>

\* The truth value of an optional module name: None and "" are false.
Truthy(target) == target # NoModule /\ target[1] # ""

\* The project of the dependency graph: two directories, each with a util.h.
GraphPaths ==
  { <<"src", "parser", "a.cpp">>,
    <<"src", "parser", "util.h">>,
    <<"src", "codegen", "util.h">> }

\* The texts of the includes, as the segments between "/".
ImportNames ==
  { <<"util.h">>,
    <<"a.cpp">>,
    <<"..", "codegen", "util.h">>,
    <<"src", "parser", "a.cpp">>,
    <<"..", "..", "..", "x.h">> }

\* ImportInfo(name, is_system): quoted includes, and two angle-bracket ones.
ImportInfos ==
  { [name |-> n, is_system |-> FALSE] : n \in ImportNames }
  \cup { [name |-> <<"vector">>, is_system |-> TRUE],
         [name |-> <<"util.h">>, is_system |-> TRUE] }

RECURSIVE FileToModuleFrom(_, _, _)
\* DependencyResolver.__init__, lines 98-102: the loop over the files of one
\* module; a later assignment to a key replaces the earlier one.
FileToModuleFrom(map, name, files) ==
  IF Len(files) = 0 THEN map
  ELSE LET path == Head(files)[1]
           byPath == (RelPath(path) :> name) @@ map
           byName == (BaseName(path) :> name) @@ byPath
       IN FileToModuleFrom(byName, name, Tail(files))

RECURSIVE FileToModule(_, _)
\* DependencyResolver.__init__, lines 97-102: _file_to_module, from `map`
\* on, over `modules`.
FileToModule(map, modules) ==
  IF Len(modules) = 0 THEN map
  ELSE FileToModule(
         FileToModuleFrom(map, Head(modules).name, Head(modules).files),
         Tail(modules))

RECURSIVE ResolvePath(_, _)
\* Path.resolve() on an absolute path without symbolic links: "." is dropped
\* and ".." takes the last segment away, none at "/".
ResolvePath(done, rest) ==
  IF Len(rest) = 0 THEN done
  ELSE IF Head(rest) = "." THEN ResolvePath(done, Tail(rest))
  ELSE IF Head(rest) = ".."
  THEN ResolvePath(IF Len(done) = 0 THEN done ELSE Parent(done), Tail(rest))
  ELSE ResolvePath(Append(done, Head(rest)), Tail(rest))

\* Whether path.relative_to(root) succeeds.
IsUnder(path, root) ==
  Len(path) >= Len(root) /\ SubSeq(path, 1, Len(root)) = root

\* DependencyResolver.resolve_import; importing_file is relative to the root.
ResolveImport(file_to_module, importing_file, import_name) ==
  IF JoinWith(import_name, "/") \in DOMAIN file_to_module
  THEN Resolved(file_to_module[JoinWith(import_name, "/")])
  ELSE LET import_path ==
             ResolvePath(<< >>, RootParts \o Parent(importing_file) \o import_name)
       IN IF ~IsUnder(import_path, RootParts) THEN NoModule
          ELSE LET rel_path ==
                     StrPath(SubSeq(import_path, Len(RootParts) + 1, Len(import_path)))
               IN IF rel_path \in DOMAIN file_to_module
                  THEN Resolved(file_to_module[rel_path])
                  ELSE NoModule

\* build_dependency_graph, line 138: module_by_name, the index in `modules`
\* of the last module of each name.
ModuleByName(modules) ==
  [name \in { modules[i].name : i \in DOMAIN modules } |->
     CHOOSE i \in DOMAIN modules :
       /\ modules[i].name = name
       /\ \A j \in DOMAIN modules : modules[j].name = name => j <= i]

\* VisitImport with a bug: the edge is not mirrored into dependents.
VisitImportOneWay(modules, file_to_module, work) ==
  LET module == modules[work.module]
      target_module == ResolveImport(file_to_module, work.path, work.imp.name)
  IN IF work.imp.is_system THEN modules
     ELSE IF Truthy(target_module) /\ target_module[1] # module.name
     THEN [modules EXCEPT ![work.module].dependencies = @ \cup {target_module[1]}]
     ELSE modules

\* VisitImport with a bug: the owner itself is accepted as a target.
VisitImportSelf(modules, file_to_module, work) ==
  LET module == modules[work.module]
      target_module == ResolveImport(file_to_module, work.path, work.imp.name)
      module_by_name == ModuleByName(modules)
  IN IF work.imp.is_system THEN modules
     ELSE IF Truthy(target_module)
     THEN LET added == [modules EXCEPT
                          ![work.module].dependencies = @ \cup {target_module[1]}]
          IN IF target_module[1] \in DOMAIN module_by_name
             THEN [added EXCEPT ![module_by_name[target_module[1]]].dependents =
                                  @ \cup {module.name}]
             ELSE added
     ELSE modules

\* VisitImport with a bug: system imports are resolved like the others.
VisitImportSystemToo(modules, file_to_module, work) ==
  LET module == modules[work.module]
      target_module == ResolveImport(file_to_module, work.path, work.imp.name)
      module_by_name == ModuleByName(modules)
  IN IF Truthy(target_module) /\ target_module[1] # module.name
     THEN LET added == [modules EXCEPT
                          ![work.module].dependencies = @ \cup {target_module[1]}]
          IN IF target_module[1] \in DOMAIN module_by_name
             THEN [added EXCEPT ![module_by_name[target_module[1]]].dependents =
                                  @ \cup {module.name}]
             ELSE added
     ELSE modules

\* build_dependency_graph, lines 146-157: the body of the innermost loop, for
\* the import work.imp of the structure of work.path listed under the module
\* at index work.module; the modules afterwards.
VisitImport(modules, file_to_module, work) ==
  LET module == modules[work.module]
      target_module == ResolveImport(file_to_module, work.path, work.imp.name)
      module_by_name == ModuleByName(modules)
  IN IF work.imp.is_system THEN modules
     ELSE IF Truthy(target_module) /\ target_module[1] # module.name
     THEN LET added == [modules EXCEPT
                          ![work.module].dependencies = @ \cup {target_module[1]}]
          IN IF target_module[1] \in DOMAIN module_by_name
             THEN [added EXCEPT ![module_by_name[target_module[1]]].dependents =
                                  @ \cup {module.name}]
             ELSE added
     ELSE modules

RECURSIVE Flatten(_)
\* The concatenation of a sequence of sequences.
Flatten(seqs) ==
  IF Len(seqs) = 0 THEN << >> ELSE Head(seqs) \o Flatten(Tail(seqs))

\* FileStructure(path, imports) of a parsed file: of `picks`, a sequence of
\* (path, import), the imports of this file, in order.
FileStructure(path, picks) ==
  LET Mine(pick) == pick[1] = path
      mine == SelectSeq(picks, Mine)
  IN [path |-> path, imports |-> [i \in DOMAIN mine |-> mine[i][2]]]

\* The FileStructures of the files of `module` that have imports, in the
\* order of module.files.
StructuresOf(module, picks) ==
  LET HasImports(file) == \E i \in DOMAIN picks : picks[i][1] = file[1]
      parsed == SelectSeq(module.files, HasImports)
  IN [i \in DOMAIN parsed |-> FileStructure(parsed[i][1], picks)]

\* module_structures: module name -> the FileStructures of its parsed files;
\* a module none of whose files has imports has no entry.
ModuleStructures(modules, picks) ==
  [name \in { modules[i].name :
               i \in { j \in DOMAIN modules :
                        Len(StructuresOf(modules[j], picks)) > 0 } } |->
     StructuresOf(modules[CHOOSE i \in DOMAIN modules : modules[i].name = name],
                  picks)]

\* build_dependency_graph, lines 140-145: the iterations of the three nested
\* loops in order, each [module, path, imp].
Worklist(modules, structures) ==
  Flatten([m \in DOMAIN modules |->
    LET mine == Get(structures, modules[m].name, << >>)
    IN Flatten([k \in DOMAIN mine |->
         [i \in DOMAIN mine[k].imports |->
            [module |-> m, path |-> mine[k].path, imp |-> mine[k].imports[i]]]])])

----------------------------------------------------------------------------
(* StateManager.update (state.py).                                          *)

\* UpdateOne with a bug: a file already recorded keeps its old digest.
UpdateOneKeepsOld(acc, entry) ==
  LET known == entry[3] \in DOMAIN acc.module_hashes
      hashes == IF known THEN acc.module_hashes[entry[3]] ELSE << >>
  IN [files |-> acc.files @@ (entry[1] :> [hash |-> entry[2], module |-> entry[3]]),
      module_hashes |->
        (entry[3] :> Append(hashes, entry[2])) @@ acc.module_hashes]

\* One iteration of the loop of lines 85-90 over (filepath, hash, module):
\* acc is [files, module_hashes].
UpdateOne(acc, entry) ==
  LET filepath == entry[1]
      file_hash == entry[2]
      module_name == entry[3]
      known == module_name \in DOMAIN acc.module_hashes
      hashes == IF known THEN acc.module_hashes[module_name] ELSE << >>
  IN [files |->
        (filepath :> [hash |-> file_hash, module |-> module_name]) @@ acc.files,
      module_hashes |->
        (module_name :> Append(hashes, file_hash)) @@ acc.module_hashes]

RECURSIVE UpdateFrom(_, _)
UpdateFrom(acc, entries) ==
  IF Len(entries) = 0 THEN acc
  ELSE UpdateFrom(UpdateOne(acc, Head(entries)), Tail(entries))

\* StateManager.update
Update(state, entries, now) ==
  LET acc == UpdateFrom([files |-> state.files, module_hashes |-> << >>], entries)
  IN [version |-> state.version,
      last_run |-> now,
      files |-> acc.files,
      modules |->
        [m \in DOMAIN acc.module_hashes |->
           [generated_at |-> now, source_hashes |-> acc.module_hashes[m]]]
        @@ state.modules]

RECURSIVE FileUpdates(_)
\* cli.update, lines 115-119: the (rel_path, hash, module name) triples.
FileUpdates(modules) ==
  IF Len(modules) = 0 THEN << >>
  ELSE [i \in DOMAIN Head(modules).files |->
          << RelPath(Head(modules).files[i][1]),
             Head(modules).files[i][2],
             Head(modules).name >>]
       \o FileUpdates(Tail(modules))

----------------------------------------------------------------------------
(* Change detection (detector.py).                                          *)

\* The files of the tree that exist.
Present(tr) == { p \in Paths : tr[p].content # 0 }

\* ChangeDetector.get_all_files: (path, hash) of every file, in the order
\* `order` in which rglob yields them.
GetAllFiles(tr, order) ==
  [i \in DOMAIN order |-> << order[i], HashFile(tr[order[i]].content) >>]

\* IsChanged with a bug: only a file with no stored digest counts as changed.
IsChangedOnlyNew(state, file) == GetFileHash(state, RelPath(file[1])) = None

\* The test of get_changed_files, line 81.
IsChanged(state, file) == GetFileHash(state, RelPath(file[1])) # file[2]

\* ChangeDetector.get_changed_files
GetChangedFiles(state, tr, order) ==
  SelectSeq(GetAllFiles(tr, order), LAMBDA file : IsChanged(state, file))

----------------------------------------------------------------------------
(* Generated documents (generator.py).                                      *)

\* Every sequence of segments a module name is the join of.
NameParts ==
  UNION { { Prefix(p, n) : n \in 0 .. Len(p) } : p \in Paths }
  \cup { Parent(p) \o << WithoutSuffix(BaseName(p)) >> : p \in Paths }
  \cup { << "root" >> }

\* MapGenerator._module_name_to_filename: "/" replaced by "_", plus ".md".
ModuleNameToFilename(name) ==
  LET parts == CHOOSE q \in NameParts : JoinWith(q, "/") = name
  IN JoinWith(parts, "_") \o ".md"

----------------------------------------------------------------------------
(* parser/cpp.py: the syntax tree and the extraction of a FileStructure.    *)

\* A node of the tree tree-sitter returns: its type, the field of its parent
\* it fills ("" when none), its rows (start_point[0], end_point[0]) and its
\* children.  `text` is the source text of a node without children, as a
\* sequence of pieces.  A node is addressed by the child indices on the way
\* from the root; its parent is the address without the last index.
Leaf(type, field, text, row) ==
  [type |-> type, field |-> field, text |-> text,
   row_start |-> row, row_end |-> row, children |-> << >>]

Branch(type, field, first, last, children) ==
  [type |-> type, field |-> field, text |-> << >>,
   row_start |-> first, row_end |-> last, children |-> children]

RECURSIVE NodeAt(_, _)
NodeAt(root, at) ==
  IF Len(at) = 0 THEN root ELSE NodeAt(root.children[Head(at)], Tail(at))

RECURSIVE Text(_)
\* _get_text: the slice of the source the node covers.
Text(node) ==
  IF Len(node.children) = 0 THEN node.text
  ELSE Flatten([i \in DOMAIN node.children |-> Text(node.children[i])])

\* node.child_by_field_name(name): the index of the child, 0 for None.
ChildByFieldName(node, name) ==
  IF \E i \in DOMAIN node.children : node.children[i].field = name
  THEN CHOOSE i \in DOMAIN node.children :
         /\ node.children[i].field = name
         /\ \A j \in 1 .. i - 1 : node.children[j].field # name
  ELSE 0

RECURSIVE FindNodes(_, _, _)
\* _find_nodes: the addresses of the nodes of the given type in the subtree
\* of `node`, whose address is `at`, in the order visit meets them.
FindNodes(node, at, node_type) ==
  (IF node.type = node_type THEN << at >> ELSE << >>)
  \o Flatten([i \in DOMAIN node.children |->
                FindNodes(node.children[i], Append(at, i), node_type)])

RECURSIVE LStrip(_, _)
LStrip(text, chars) ==
  IF Len(text) > 0 /\ Head(text) \in chars THEN LStrip(Tail(text), chars)
  ELSE text

RECURSIVE RStrip(_, _)
RStrip(text, chars) ==
  IF Len(text) > 0 /\ text[Len(text)] \in chars
  THEN RStrip(SubSeq(text, 1, Len(text) - 1), chars)
  ELSE text

\* str.strip(chars)
Strip(text, chars) == RStrip(LStrip(text, chars), chars)

RECURSIVE FindFunctionName(_)
RECURSIVE FirstFunctionName(_)

\* _find_function_name, lines 139-144: the first name found in the children;
\* << >> is None.
FirstFunctionName(children) ==
  IF Len(children) = 0 THEN << >>
  ELSE LET result == FindFunctionName(Head(children))
       IN IF result # << >> THEN result
          ELSE FirstFunctionName(Tail(children))

\* _find_function_name
FindFunctionName(declarator) ==
  IF declarator.type = "identifier" THEN Text(declarator)
  ELSE IF /\ declarator.type = "qualified_identifier"
          /\ ChildByFieldName(declarator, "name") # 0
  THEN Text(declarator.children[ChildByFieldName(declarator, "name")])
  ELSE IF /\ declarator.type = "function_declarator"
          /\ ChildByFieldName(declarator, "declarator") # 0
  THEN FindFunctionName(
         declarator.children[ChildByFieldName(declarator, "declarator")])
  ELSE FirstFunctionName(declarator.children)

\* _extract_function_info with a bug: the rows are taken as line numbers.
ExtractFunctionInfoZeroBased(node) ==
  LET d == ChildByFieldName(node, "declarator")
      t == ChildByFieldName(node, "type")
  IN IF d = 0 THEN << >>
     ELSE LET name == FindFunctionName(node.children[d])
              signature ==
                IF t # 0
                THEN Text(node.children[t]) \o << " " >> \o Text(node.children[d])
                ELSE Text(node.children[d])
          IN IF name = << >> THEN << >>
             ELSE << [name |-> name,
                      signature |-> Strip(signature, {" "}),
                      line_start |-> node.row_start,
                      line_end |-> node.row_end,
                      docstring |-> None,
                      visibility |-> "unknown"] >>

\* _extract_function_info: << >> for None, else the FunctionInfo; docstring
\* and visibility keep the defaults of parser/base.py.
ExtractFunctionInfo(node) ==
  LET d == ChildByFieldName(node, "declarator")
      t == ChildByFieldName(node, "type")
  IN IF d = 0 THEN << >>
     ELSE LET name == FindFunctionName(node.children[d])
              signature ==
                IF t # 0
                THEN Text(node.children[t]) \o << " " >> \o Text(node.children[d])
                ELSE Text(node.children[d])
          IN IF name = << >> THEN << >>
             ELSE << [name |-> name,
                      signature |-> Strip(signature, {" "}),
                      line_start |-> node.row_start + 1,
                      line_end |-> node.row_end + 1,
                      docstring |-> None,
                      visibility |-> "unknown"] >>

\* _extract_includes
ExtractIncludes(root) ==
  LET found == FindNodes(root, << >>, "preproc_include")
      Info(at) ==
        LET node == NodeAt(root, at)
            p == ChildByFieldName(node, "path")
        IN IF p = 0 THEN << >>
           ELSE LET path_text == Text(node.children[p])
                IN << [name |-> Strip(path_text, {"<", ">", "\""}),
                       is_system |-> Len(path_text) > 0 /\ path_text[1] = "<"] >>
  IN Flatten([i \in DOMAIN found |-> Info(found[i])])

\* _extract_classes, lines 62-81: the ClassInfo of the nodes of one type.
ExtractClassesOf(root, node_type) ==
  LET found == FindNodes(root, << >>, node_type)
      Info(at) ==
        LET node == NodeAt(root, at)
            n == ChildByFieldName(node, "name")
            b == ChildByFieldName(node, "body")
            methods == IF b = 0 THEN << >>
                       ELSE FindNodes(node.children[b], Append(at, b),
                                      "function_definition")
        IN IF n = 0 THEN << >>
           ELSE << [name |-> Text(node.children[n]),
                    line_start |-> node.row_start + 1,
                    line_end |-> node.row_end + 1,
                    methods |->
                      Flatten([i \in DOMAIN methods |->
                                 ExtractFunctionInfo(NodeAt(root, methods[i]))]),
                    docstring |-> None,
                    visibility |-> "unknown"] >>
  IN Flatten([i \in DOMAIN found |-> Info(found[i])])

\* _extract_classes
ExtractClasses(root) ==
  ExtractClassesOf(root, "class_specifier")
  \o ExtractClassesOf(root, "struct_specifier")

TypeNodes == {"class_specifier", "struct_specifier"}

\* _extract_functions with a bug: only the parent of the node is looked at.
ExtractFunctionsParentOnly(root) ==
  LET found == FindNodes(root, << >>, "function_definition")
      Info(at) ==
        IF /\ Len(at) > 0
           /\ NodeAt(root, SubSeq(at, 1, Len(at) - 1)).type \in TypeNodes
        THEN << >>
        ELSE ExtractFunctionInfo(NodeAt(root, at))
  IN Flatten([i \in DOMAIN found |-> Info(found[i])])

\* _extract_functions: the walk over node.parent up to the root.
ExtractFunctions(root) ==
  LET found == FindNodes(root, << >>, "function_definition")
      Info(at) ==
        IF \E k \in 0 .. Len(at) - 1 :
             NodeAt(root, SubSeq(at, 1, k)).type \in TypeNodes
        THEN << >>
        ELSE ExtractFunctionInfo(NodeAt(root, at))
  IN Flatten([i \in DOMAIN found |-> Info(found[i])])

\* CppParser.parse, of the file at `path` whose syntax tree is `root`.
Parse(path, root) ==
  [path |-> path,
   language |-> "cpp",
   imports |-> ExtractIncludes(root),
   classes |-> ExtractClasses(root),
   functions |-> ExtractFunctions(root)]

----------------------------------------------------------------------------
(* Syntax trees of small C++ sources, as the tree-sitter-cpp grammar shapes *)
(* them.                                                                    *)

Identifier(field, name, row) == Leaf("identifier", field, << name >>, row)

\* (a, b): one parameter_declaration for each name.
ParameterList(names, row) ==
  Branch("parameter_list", "parameters", row, row,
         [i \in DOMAIN names |->
            Branch("parameter_declaration", "", row, row,
                   << Leaf("primitive_type", "type", << "int" >>, row),
                      Identifier("declarator", names[i], row) >>)])

FunctionDeclarator(field, inner, names, row) ==
  Branch("function_declarator", field, row, row,
         << inner, ParameterList(names, row) >>)

\* scope::name
QualifiedIdentifier(field, scope, name, row) ==
  Branch("qualified_identifier", field, row, row,
         << Leaf("namespace_identifier", "scope", << scope >>, row),
            Leaf("::", "", << "::" >>, row),
            name >>)

DeclaratorShapes ==
  {"plain", "parameters", "qualified", "nested", "pointer", "reference",
   "operator", "operator0", "destructor"}

\* The declarator of a function definition that starts on `row`.
Declarator(shape, name, row) ==
  CASE shape = "plain" ->
         FunctionDeclarator("declarator", Identifier("declarator", name, row),
                            << >>, row)
    [] shape = "parameters" ->
         FunctionDeclarator("declarator", Identifier("declarator", name, row),
                            << "a" >>, row)
    [] shape = "qualified" ->
         FunctionDeclarator(
           "declarator",
           QualifiedIdentifier("declarator", "A",
                               Identifier("name", name, row), row),
           << >>, row)
    [] shape = "nested" ->
         FunctionDeclarator(
           "declarator",
           QualifiedIdentifier(
             "declarator", "A",
             QualifiedIdentifier("name", "B", Identifier("name", name, row), row),
             row),
           << >>, row)
    [] shape = "pointer" ->
         Branch("pointer_declarator", "declarator", row, row,
                << Leaf("*", "", << "*" >>, row),
                   FunctionDeclarator("declarator",
                                      Identifier("declarator", name, row),
                                      << >>, row) >>)
    [] shape = "reference" ->
         Branch("reference_declarator", "declarator", row, row,
                << Leaf("&", "", << "&" >>, row),
                   FunctionDeclarator("",
                                      Identifier("declarator", name, row),
                                      << >>, row) >>)
    [] shape = "operator" ->
         FunctionDeclarator(
           "declarator",
           Branch("operator_name", "declarator", row, row,
                  << Leaf("operator", "", << "operator" >>, row),
                     Leaf("+", "", << "+" >>, row) >>),
           << "a" >>, row)
    [] shape = "operator0" ->
         FunctionDeclarator(
           "declarator",
           Branch("operator_name", "declarator", row, row,
                  << Leaf("operator", "", << "operator" >>, row),
                     Leaf("!", "", << "!" >>, row) >>),
           << >>, row)
    [] shape = "destructor" ->
         FunctionDeclarator(
           "declarator",
           Branch("destructor_name", "declarator", row, row,
                  << Leaf("~", "", << "~" >>, row),
                     Identifier("", name, row) >>),
           << >>, row)

\* A function definition on the rows first .. last with `inside` in its
\* body; a destructor has no return type.
FunctionDefinition(shape, name, first, last, inside) ==
  Branch("function_definition", "", first, last,
         (IF shape = "destructor" THEN << >>
          ELSE << Leaf("primitive_type", "type", << "int" >>, first) >>)
         \o << Declarator(shape, name, first),
               Branch("compound_statement", "body", first, last, inside) >>)

\* class name { members }; or struct; name "" for an unnamed type.
TypeDefinition(node_type, field, name, first, last, members) ==
  Branch(node_type, field, first, last,
         (IF name = "" THEN << >>
          ELSE << Leaf("type_identifier", "name", << name >>, first) >>)
         \o << Branch("field_declaration_list", "body", first, last, members) >>)

AccessSpecifier(keyword, row) == Leaf("access_specifier", "", << keyword >>, row)

\* #include "name" or #include <name>
Include(open, name, close, row) ==
  Branch("preproc_include", "", row, row,
         << Leaf("#include", "", << "#include" >>, row),
            Leaf(IF open = "<" THEN "system_lib_string" ELSE "string_literal",
                 "path", << open, name, close >>, row) >>)

ItemKinds ==
  DeclaratorShapes
  \cup {"Foo", "Access", "struct", "unnamed", "Outer", "forward", "namespace",
        "local", "include", "system"}

\* The rows a top-level item takes.
Rows(kind) ==
  CASE kind \in DeclaratorShapes -> 3
    [] kind = "Foo" -> 31
    [] kind = "Access" -> 12
    [] kind = "struct" -> 5
    [] kind = "unnamed" -> 5
    [] kind = "Outer" -> 9
    [] kind = "forward" -> 1
    [] kind = "namespace" -> 8
    [] kind = "local" -> 7
    [] kind \in {"include", "system"} -> 1

\* The top-level item of the given kind that starts on row r.
Item(kind, r) ==
  CASE kind \in DeclaratorShapes ->
         FunctionDefinition(kind, "f", r, r + 2, << >>)
    [] kind = "Foo" ->
         TypeDefinition("class_specifier", "", "Foo", r, r + 30,
           << AccessSpecifier("public", r + 1),
              FunctionDefinition("plain", "bar", r + 5, r + 10, << >>) >>)
    [] kind = "Access" ->
         TypeDefinition("class_specifier", "", "Q", r, r + 11,
           << FunctionDefinition("plain", "first", r + 1, r + 2, << >>),
              AccessSpecifier("public", r + 3),
              FunctionDefinition("parameters", "open", r + 4, r + 5, << >>),
              AccessSpecifier("protected", r + 6),
              FunctionDefinition("plain", "hook", r + 7, r + 8, << >>),
              AccessSpecifier("private", r + 9),
              FunctionDefinition("pointer", "impl", r + 10, r + 10, << >>) >>)
    [] kind = "struct" ->
         TypeDefinition("struct_specifier", "", "S", r, r + 4,
           << FunctionDefinition("plain", "m", r + 1, r + 2, << >>),
              FunctionDefinition("operator0", "", r + 3, r + 3, << >>) >>)
    [] kind = "unnamed" ->
         Branch("declaration", "", r, r + 4,
           << TypeDefinition("struct_specifier", "type", "", r, r + 4,
                << FunctionDefinition("plain", "m", r + 1, r + 3, << >>) >>),
              Identifier("declarator", "x", r + 4) >>)
    [] kind = "Outer" ->
         TypeDefinition("class_specifier", "", "Outer", r, r + 8,
           << Branch("field_declaration", "", r + 1, r + 5,
                << TypeDefinition("class_specifier", "type", "Inner",
                     r + 1, r + 5,
                     << FunctionDefinition("plain", "m", r + 2, r + 4,
                                           << >>) >>) >>),
              FunctionDefinition("plain", "n", r + 6, r + 7, << >>) >>)
    [] kind = "forward" ->
         Branch("class_specifier", "", r, r,
                << Leaf("type_identifier", "name", << "Fwd" >>, r) >>)
    [] kind = "namespace" ->
         Branch("namespace_definition", "", r, r + 7,
           << Leaf("namespace_identifier", "name", << "N" >>, r),
              Branch("declaration_list", "body", r, r + 7,
                << FunctionDefinition("plain", "g", r + 1, r + 2, << >>),
                   TypeDefinition("struct_specifier", "", "T", r + 3, r + 6,
                     << FunctionDefinition("plain", "m", r + 4, r + 5,
                                           << >>) >>) >>) >>)
    [] kind = "local" ->
         FunctionDefinition("plain", "h", r, r + 6,
           << TypeDefinition("struct_specifier", "", "L", r + 1, r + 5,
                << FunctionDefinition("plain", "m", r + 2, r + 4, << >>) >>) >>)
    [] kind = "include" -> Include("\"", "util.h", "\"", r)
    [] kind = "system" -> Include("<", "vector", ">", r)

RECURSIVE Items(_, _)
\* The items of the given kinds, one after the other from row r on.
Items(kinds, r) ==
  IF Len(kinds) = 0 THEN << >>
  ELSE << Item(Head(kinds), r) >> \o Items(Tail(kinds), r + Rows(Head(kinds)))

RECURSIVE TotalRows(_)
TotalRows(kinds) ==
  IF Len(kinds) = 0 THEN 0 ELSE Rows(Head(kinds)) + TotalRows(Tail(kinds))

\* The root of the tree of a source that has `lead` rows before its items.
TranslationUnit(lead, kinds) ==
  Branch("translation_unit", "", 0, lead + TotalRows(kinds), Items(kinds, lead))

\* The rows a source may have before its first item.
Leads == {0, 9}

\* The lists of at least one and at most n kinds of items.
Sources(n) == UNION { [1 .. k -> ItemKinds] : k \in 1 .. n }

\* The file the parser is given.
SourcePath == << "src", "parser", "a.cpp" >>

\* Nothing parsed yet.
NoTree == Branch("translation_unit", "", 0, 0, << >>)
NoStructure ==
  [path |-> SourcePath, language |-> "", imports |-> << >>, classes |-> << >>,
   functions |-> << >>]

----------------------------------------------------------------------------
(* The state of the model.                                                  *)

VARIABLES
  tree,      \* the source files: path -> [content, mtime, readable]
  disk,      \* .codemap/state.json: [kind, doc, len]
  docs,      \* the file names in .codemap/modules
  overview,  \* whether .codemap/overview.md exists
  config,    \* config.modules: [strategy, depth]
  runs,      \* the number of invocations so far
  clock,     \* datetime.utcnow() of the latest StateManager.update
  env,       \* the number of steps the environment has taken
  pc,        \* per invocation: where it is in cli.update
  flags,     \* per invocation: [full, dry_run]
  st,        \* per invocation: StateManager.state
  changed,   \* per invocation: changed_files
  mods,      \* per invocation: modules
  sync,      \* history: the last save wrote the digests of the tree as it is
  fresh,     \* history, per invocation: "insync" when it loaded such a state,
             \* "fresh" when it scanned the tree, as long as the tree is as it was
  resolver,  \* DependencyResolver: [modules, file_to_module]
  module_structures,  \* the argument of build_dependency_graph
  todo,      \* the iterations build_dependency_graph has still to make
  phase,     \* where the construction of the dependency graph is
  grouper,   \* ModuleGrouper: config.modules of the latest group_files call
  batch,     \* the files of the latest group_files call, each (path, hash)
  returned,  \* the modules the latest group_files call returned
  ast,       \* the root of the syntax tree of the file given to parse
  file_structure  \* the FileStructure parse returned

vars ==
  << tree, disk, docs, overview, config, runs, clock, env, pc, flags, st, changed,
     mods, sync, fresh, resolver, module_structures, todo, phase, grouper, batch,
     returned, ast, file_structure >>

\* The variables of the update pipeline and those of the dependency graph.
pvars ==
  << tree, disk, docs, overview, runs, clock, env, pc, flags, st, changed, mods,
     sync, fresh >>
gvars == << resolver, module_structures, todo, phase >>

\* The variables of a call of group_files on its own.
avars == << grouper, batch, returned >>

\* The variables of a call of parse on its own.
xvars == << ast, file_structure >>

\* No DependencyResolver yet.
NoResolver == [modules |-> << >>, file_to_module |-> << >>]

Configs ==
  { [strategy |-> "directory", depth |-> 2],
    [strategy |-> "directory", depth |-> 1],
    [strategy |-> "file", depth |-> 2] }

\* A project of two files of one directory, and a third not yet written.
InitialTree ==
  [p \in Paths |->
     [content |-> IF p[3] = "a.cpp" THEN 1 ELSE IF p[3] = "b.cpp" THEN 2 ELSE 0,
      mtime |-> 0,
      readable |-> TRUE]]

NoFlags == [full |-> FALSE, dry_run |-> FALSE]

Init ==
  /\ tree = InitialTree
  /\ disk = NoDoc("missing")
  /\ docs = {}
  /\ overview = FALSE
  /\ config \in Configs
  /\ runs = 0
  /\ clock = 0
  /\ env = 0
  /\ pc = [r \in Procs |-> "idle"]
  /\ flags = [r \in Procs |-> NoFlags]
  /\ st = [r \in Procs |-> DefaultState]
  /\ changed = [r \in Procs |-> << >>]
  /\ mods = [r \in Procs |-> << >>]
  /\ sync = FALSE
  /\ fresh = [r \in Procs |-> "none"]
  /\ resolver = NoResolver
  /\ module_structures = << >>
  /\ todo = << >>
  /\ phase = "idle"
  /\ grouper = [strategy |-> "directory", depth |-> 2]
  /\ batch = << >>
  /\ returned = << >>
  /\ ast = NoTree
  /\ file_structure = NoStructure

Stopped ==
  {"idle", "uptodate", "dryrun", "done", "aborted", "crashed", "clean", "stale"}
BeforeSave == {"loaded", "detected", "grouped", "generated", "updated"}

----------------------------------------------------------------------------
(* cli.update, one action per step.                                         *)

\* The process of invocation r ends, and its memory with it; the state a
\* completed run has saved stays visible as st[r].
Exit(r, how) ==
  /\ pc' = [pc EXCEPT ![r] = how]
  /\ flags' = [flags EXCEPT ![r] = NoFlags]
  /\ st' = [st EXCEPT ![r] = IF how = "done" THEN @ ELSE DefaultState]
  /\ changed' = [changed EXCEPT ![r] = << >>]
  /\ mods' = [mods EXCEPT ![r] = << >>]

\* Lines 57-82: the command starts and StateManager.__init__ loads the state.
Invoke(r) ==
  /\ UNCHANGED << gvars, avars, xvars >>
  /\ pc[r] \in Stopped
  /\ runs < MaxRuns
  /\ runs' = runs + 1
  /\ LET got == Load(disk)
     IN IF got.raised
        THEN /\ Exit(r, "aborted")
             /\ fresh' = [fresh EXCEPT ![r] = "none"]
        ELSE /\ \E full \in BOOLEAN, dry_run \in BOOLEAN :
                  flags' = [flags EXCEPT ![r] = [full |-> full, dry_run |-> dry_run]]
             /\ st' = [st EXCEPT ![r] = got.state]
             /\ pc' = [pc EXCEPT ![r] = "loaded"]
             /\ changed' = [changed EXCEPT ![r] = << >>]
             /\ mods' = [mods EXCEPT ![r] = << >>]
             /\ fresh' = [fresh EXCEPT ![r] = IF sync THEN "insync" ELSE "none"]
  /\ UNCHANGED << tree, disk, docs, overview, config, clock, env, sync >>

\* Lines 85-92: get_all_files or get_changed_files; _hash_file raises on an
\* unreadable file.
Detect(r) ==
  /\ UNCHANGED << gvars, avars, xvars >>
  /\ pc[r] = "loaded"
  /\ IF \E p \in Present(tree) : ~tree[p].readable
     THEN /\ Exit(r, "aborted")
          /\ UNCHANGED fresh
     ELSE \E order \in Perms(Present(tree)) :
            LET files == IF flags[r].full THEN GetAllFiles(tree, order)
                         ELSE GetChangedFiles(st[r], tree, order)
            IN /\ fresh' = [fresh EXCEPT ![r] = "fresh"]
               /\ IF ~flags[r].full /\ files = << >>
                  THEN Exit(r, "uptodate")
                  ELSE /\ changed' = [changed EXCEPT ![r] = files]
                       /\ pc' = [pc EXCEPT ![r] = "detected"]
                       /\ UNCHANGED << flags, st, mods >>
  /\ UNCHANGED << tree, disk, docs, overview, config, runs, clock, env, sync >>

\* Group with a bug: a dry run does not return and goes on to generate.
GroupIgnoringDryRun(r) ==
  /\ UNCHANGED << gvars, avars, xvars >>
  /\ pc[r] = "detected"
  /\ mods' = [mods EXCEPT ![r] = GroupFiles(config, changed[r])]
  /\ pc' = [pc EXCEPT ![r] = "grouped"]
  /\ UNCHANGED << flags, st, changed >>
  /\ UNCHANGED << tree, disk, docs, overview, config, runs, clock, env, sync,
                  fresh >>

\* Lines 95-101: group_files, and the return of a dry run.
Group(r) ==
  /\ UNCHANGED << gvars, avars, xvars >>
  /\ pc[r] = "detected"
  /\ IF flags[r].dry_run
     THEN Exit(r, "dryrun")
     ELSE /\ mods' = [mods EXCEPT ![r] = GroupFiles(config, changed[r])]
          /\ pc' = [pc EXCEPT ![r] = "grouped"]
          /\ UNCHANGED << flags, st, changed >>
  /\ UNCHANGED << tree, disk, docs, overview, config, runs, clock, env, sync,
                  fresh >>

\* Generate with a bug: when generation fails, the state of the modules
\* generated so far is recorded and saved before the run aborts.
GenerateSavingProgress(r) ==
  /\ UNCHANGED << gvars, avars, xvars >>
  /\ pc[r] = "grouped"
  /\ \E n \in 0 .. Len(mods[r]) + 1 :
       LET done == IF n > Len(mods[r]) THEN Len(mods[r]) ELSE n
       IN /\ docs' = docs \cup
                       { ModuleNameToFilename(mods[r][i].name) : i \in 1 .. done }
          /\ overview' = (overview \/ n > Len(mods[r]))
          /\ IF n > Len(mods[r])
             THEN /\ pc' = [pc EXCEPT ![r] = "generated"]
                  /\ UNCHANGED << disk, flags, st, changed, mods >>
             ELSE /\ Exit(r, "aborted")
                  /\ disk' =
                       Complete(Update(st[r],
                                  FileUpdates(SubSeq(mods[r], 1, done)), clock))
  /\ UNCHANGED << tree, config, runs, clock, env, sync, fresh >>

\* Lines 104-111: generate_module for every module, then generate_overview.
\* The summarising service or a write may raise after n documents.
Generate(r) ==
  /\ UNCHANGED << gvars, avars, xvars >>
  /\ pc[r] = "grouped"
  /\ \E n \in 0 .. Len(mods[r]) + 1 :
       LET done == IF n > Len(mods[r]) THEN Len(mods[r]) ELSE n
       IN /\ docs' = docs \cup
                       { ModuleNameToFilename(mods[r][i].name) : i \in 1 .. done }
          /\ overview' = (overview \/ n > Len(mods[r]))
          /\ IF n > Len(mods[r])
             THEN /\ pc' = [pc EXCEPT ![r] = "generated"]
                  /\ UNCHANGED << flags, st, changed, mods >>
             ELSE Exit(r, "aborted")
  /\ UNCHANGED << tree, disk, config, runs, clock, env, sync, fresh >>

\* Lines 114-121: state.update(file_updates)
UpdateState(r) ==
  /\ UNCHANGED << gvars, avars, xvars >>
  /\ pc[r] = "generated"
  /\ clock' = clock + 1
  /\ st' = [st EXCEPT ![r] = Update(st[r], FileUpdates(mods[r]), clock')]
  /\ pc' = [pc EXCEPT ![r] = "updated"]
  /\ UNCHANGED << tree, disk, docs, overview, config, runs, env, flags,
                  changed, mods, sync, fresh >>

\* StateManager.save, line 114: open(path, "w") truncates the file and leaves
\* the writer at offset 0.
SaveOpen(r) ==
  /\ UNCHANGED << gvars, avars, xvars >>
  /\ pc[r] = "updated"
  /\ disk' = NoDoc("empty")
  /\ pc' = [pc EXCEPT ![r] = "saving"]
  /\ sync' = FALSE
  /\ UNCHANGED << tree, docs, overview, config, runs, clock, env, flags, st,
                  changed, mods, fresh >>

\* The characters in the file.
FileLen(file) ==
  CASE file.kind = "object" -> TextLen(file.doc)
    [] file.kind = "invalid" -> file.len
    [] OTHER -> 0

\* StateManager.save, lines 114-115: what the file `before` holds once the
\* writer of `state` has closed it.  The text json.dump produces stays in the
\* writer's buffer, being shorter than the buffer, and goes to the file in
\* one write at offset 0 when the with block closes it; nothing is truncated
\* again, so the characters another writer has put beyond the end of this
\* text stay behind it.
Written(state, before) ==
  IF FileLen(before) > TextLen(ToJson(state))
  THEN Garbage(FileLen(before))
  ELSE Complete(state)

\* StateManager.save, lines 114-115: json.dump and the end of the with
\* block.
SaveClose(r) ==
  /\ UNCHANGED << gvars, avars, xvars >>
  /\ pc[r] = "saving"
  /\ disk' = Written(st[r], disk)
  /\ Exit(r, "done")
  /\ sync' = (fresh[r] = "fresh" /\ disk'.kind = "object")
  /\ UNCHANGED << tree, docs, overview, config, runs, clock, env, fresh >>

\* The process is killed.
Crash(r) ==
  /\ UNCHANGED << gvars, avars, xvars >>
  /\ pc[r] \notin Stopped
  /\ Exit(r, "crashed")
  /\ UNCHANGED << tree, disk, docs, overview, config, runs, clock, env, sync,
                  fresh >>

----------------------------------------------------------------------------
(* cli.clean, and what happens to the files from outside.                   *)

\* cli.clean with --yes: state.json, overview.md and modules/*.md are removed.
Clean ==
  /\ UNCHANGED << gvars, avars, xvars >>
  /\ \A r \in Procs : pc[r] \in Stopped
  /\ env < MaxEnv
  /\ disk.kind # "missing" \/ overview \/ docs # {}
  /\ env' = env + 1
  /\ disk' = NoDoc("missing")
  /\ docs' = {}
  /\ overview' = FALSE
  /\ sync' = FALSE
  /\ UNCHANGED << tree, config, runs, clock, pc, flags, st, changed, mods, fresh >>

\* What a change of the tree does to the history variables.
TreeChanged ==
  /\ sync' = FALSE
  /\ fresh' = [r \in Procs |-> "none"]

\* A source file is created or its content replaced.
WriteFile(p, c) ==
  /\ UNCHANGED << gvars, avars, xvars >>
  /\ env < MaxEnv
  /\ tree[p].content # c
  /\ env' = env + 1
  /\ tree' = [tree EXCEPT ![p] = [content |-> c, mtime |-> 1 - @.mtime,
                                  readable |-> @.readable]]
  /\ TreeChanged
  /\ UNCHANGED << disk, docs, overview, config, runs, clock, pc, flags, st,
                  changed, mods >>

\* A source file's timestamp changes, its bytes do not.
TouchFile(p) ==
  /\ UNCHANGED << gvars, avars, xvars >>
  /\ env < MaxEnv
  /\ tree[p].content # 0
  /\ env' = env + 1
  /\ tree' = [tree EXCEPT ![p].mtime = 1 - @]
  /\ UNCHANGED << disk, docs, overview, config, runs, clock, pc, flags, st,
                  changed, mods, sync, fresh >>

\* A source file's read permission is taken away or given back.
ChmodFile(p) ==
  /\ UNCHANGED << gvars, avars, xvars >>
  /\ env < MaxEnv
  /\ tree[p].content # 0
  /\ env' = env + 1
  /\ tree' = [tree EXCEPT ![p].readable = ~@]
  /\ UNCHANGED << disk, docs, overview, config, runs, clock, pc, flags, st,
                  changed, mods, sync, fresh >>

\* A source file is deleted.
DeleteFile(p) ==
  /\ UNCHANGED << gvars, avars, xvars >>
  /\ env < MaxEnv
  /\ tree[p].content # 0
  /\ env' = env + 1
  /\ tree' = [tree EXCEPT ![p] = Absent]
  /\ TreeChanged
  /\ UNCHANGED << disk, docs, overview, config, runs, clock, pc, flags, st,
                  changed, mods >>

\* A record without one of its keys.
Without(d, key) == [k \in DOMAIN d \ {key} |-> d[k]]

\* The state file is damaged while no command runs: made unreadable, replaced
\* by text that is no JSON or by JSON that is no object, or one key of the
\* object, of a file entry or of a module entry is lost.
CorruptState ==
  /\ UNCHANGED << gvars, avars, xvars >>
  /\ \A r \in Procs : pc[r] \in Stopped
  /\ env < MaxEnv
  /\ env' = env + 1
  /\ \/ \E kind \in {"unreadable", "invalid", "nonobject"} :
          /\ disk.kind # kind
          /\ disk' = NoDoc(kind)
     \/ /\ disk.kind = "object"
        /\ \/ \E key \in DOMAIN disk.doc :
                disk' = [disk EXCEPT !.doc = Without(@, key)]
           \/ \E p \in DOMAIN Get(disk.doc, "files", << >>),
                 key \in {"hash", "module"} :
                disk' = [disk EXCEPT !.doc.files[p] = Without(@, key)]
           \/ \E m \in DOMAIN Get(disk.doc, "modules", << >>),
                 key \in {"generated_at", "source_hashes"} :
                disk' = [disk EXCEPT !.doc.modules[m] = Without(@, key)]
  /\ sync' = FALSE
  /\ UNCHANGED << tree, docs, overview, config, runs, clock, pc, flags, st,
                  changed, mods, fresh >>

----------------------------------------------------------------------------
(* The specification of the update pipeline.                                *)

\* cli.status, lines 172-205: load the state, list the changed files and
\* report; the command exits with 1 when some file has changed.
Status(r) ==
  /\ UNCHANGED << gvars, avars, xvars >>
  /\ pc[r] \in Stopped
  /\ runs < MaxRuns
  /\ runs' = runs + 1
  /\ LET got == Load(disk)
     IN IF got.raised \/ \E p \in Present(tree) : ~tree[p].readable
        THEN Exit(r, "aborted")
        ELSE \E order \in Perms(Present(tree)) :
               Exit(r, IF GetChangedFiles(got.state, tree, order) = << >>
                       THEN "clean" ELSE "stale")
  /\ fresh' = [fresh EXCEPT ![r] = "none"]
  /\ UNCHANGED << tree, disk, docs, overview, config, clock, env, sync >>

Run(r) ==
  \/ Invoke(r)
  \/ Status(r)
  \/ Detect(r)
  \/ Group(r)
  \/ Generate(r)
  \/ UpdateState(r)
  \/ SaveOpen(r)
  \/ SaveClose(r)
  \/ Crash(r)

Environment ==
  \/ Clean
  \/ CorruptState
  \/ \E p \in Paths :
       \/ \E c \in Contents : WriteFile(p, c)
       \/ TouchFile(p)
       \/ ChmodFile(p)
       \/ DeleteFile(p)

Next == Run(1) \/ Environment

Spec == Init /\ [][Next]_vars

----------------------------------------------------------------------------
(* Claims about the update pipeline.                                        *)

\* The digests get_all_files computes for the tree as it is.
CurrentFiles == { << p, HashFile(tree[p].content) >> : p \in Present(tree) }

\* C1: once an update run has completed its save and neither the tree nor the
\* state file has been modified since the run scanned the tree, get_changed_files
\* with the state reloaded from the state file returns no files, whatever the
\* order of the scan.
C1_SecondDetectionEmpty ==
  sync =>
    /\ ~Load(disk).raised
    /\ \A order \in Perms(Present(tree)) :
         GetChangedFiles(Load(disk).state, tree, order) = << >>

\* C1, witness: a second invocation, after a completed run over a tree with
\* files in it, has found nothing changed.
C1_Witness ==
  /\ sync
  /\ runs >= 2
  /\ pc[1] = "uptodate"
  /\ fresh[1] = "fresh"
  /\ Present(tree) # {}
  /\ disk.kind = "object"

\* C2: get_changed_files returns, once each, exactly the files of get_all_files
\* whose digest differs from the digest stored for their root-relative path or
\* whose path has none stored; timestamps and permissions play no part.
C2_ChangedExactly ==
  [][\A r \in Procs :
       (pc[r] = "loaded" /\ ~flags[r].full /\ pc'[r] \in {"detected", "uptodate"})
       => LET expected ==
                { f \in CurrentFiles :
                    \/ RelPath(f[1]) \notin DOMAIN st[r].files
                    \/ st[r].files[RelPath(f[1])].hash # f[2] }
          IN IF expected = {} THEN pc'[r] = "uptodate"
             ELSE /\ pc'[r] = "detected"
                  /\ Range(changed'[r]) = expected
                  /\ Len(changed'[r]) = Cardinality(expected)]_vars

\* C2, witness: a detection has returned some files and left out a file whose
\* stored digest equals its current digest.
C2_Witness ==
  /\ pc[1] = "detected"
  /\ ~flags[1].full
  /\ fresh[1] = "fresh"
  /\ changed[1] # << >>
  /\ \E f \in CurrentFiles :
       /\ GetFileHash(st[1], RelPath(f[1])) = f[2]
       /\ f \notin Range(changed[1])

\* The state file is there and is not what save writes.
Malformed(file) ==
  \/ file.kind \in {"unreadable", "empty", "invalid", "nonobject"}
  \/ /\ file.kind = "object"
     /\ \/ \E p \in DOMAIN Get(file.doc, "files", << >>) :
             ~({"hash", "module"} \subseteq DOMAIN file.doc.files[p])
        \/ \E m \in DOMAIN Get(file.doc, "modules", << >>) :
             ~({"generated_at", "source_hashes"} \subseteq DOMAIN file.doc.modules[m])

\* C3: loading never raises, and a state file that is missing or malformed
\* loads as the empty default state.
C3_LoadNeverRaises ==
  /\ ~Load(disk).raised
  /\ (disk.kind = "missing" \/ Malformed(disk)) => Load(disk).state = DefaultState

\* The hashes of the members of a module, in the order of the batch.
MemberHashes(module) == [i \in DOMAIN module.files |-> module.files[i][2]]

\* C4: after update, every module of the batch is recorded with the sorted
\* list of its member hashes.
C4_SortedSourceHashes ==
  \A r \in Procs :
    pc[r] = "updated" =>
      \A i \in DOMAIN mods[r] :
        st[r].modules[mods[r][i].name].source_hashes
          = SortSeq(MemberHashes(mods[r][i]), LAMBDA a, b : a < b)

\* C5: at every point during and after a save the state file holds a complete
\* state, the previous or the new one, never an empty one.
C5_AtomicSave == disk.kind # "empty"

\* C6: every step a run takes before its save, its abort included, leaves the
\* state file as it is, and a run aborts only before its save begins; so the
\* state file of an aborted run is the one it started with.
C6_AbortWritesNothing ==
  [][\A r \in Procs :
       (pc'[r] # pc[r] /\ pc'[r] \in BeforeSave \cup {"aborted"})
       => /\ disk' = disk
          /\ pc[r] \in Stopped \cup BeforeSave]_vars

\* C6, witness: a run that had detected changes has aborted, after writing a
\* module document, and the state file is still missing.
C6_Witness ==
  /\ pc[1] = "aborted"
  /\ runs = 1
  /\ docs # {}
  /\ disk.kind = "missing"

----------------------------------------------------------------------------
(* Two invocations of the update command at once.  The state file carries   *)
(* no lock, so their steps interleave freely.                               *)

\* A source file is created while the commands run.
CreateFile(p, c) == tree[p].content = 0 /\ WriteFile(p, c)

NextRace ==
  \/ Run(1)
  \/ Run(2)
  \/ \E p \in Paths, c \in Contents : CreateFile(p, c)

\* The default configuration: directory strategy, depth 2.
InitRace == Init /\ config = [strategy |-> "directory", depth |-> 2]

SpecRace == InitRace /\ [][NextRace]_vars

\* C7: when both runs have saved, the state file holds the in-memory state
\* of one of them, the one that saved last: it reloads to exactly that state.
C7_LastWriteWins ==
  (pc[1] = "done" /\ pc[2] = "done")
  => /\ disk.kind = "object"
     /\ ~Load(disk).raised
     /\ \E r \in Procs : Load(disk).state = st[r]

\* C7, witness: both runs have saved, run 2 after run 1, the state file is the
\* state of run 2, and a file that run 1 recorded is not in it.
C7_Witness ==
  /\ pc[1] = "done"
  /\ pc[2] = "done"
  /\ disk.kind = "object"
  /\ Load(disk).state = st[2]
  /\ st[1].last_run < st[2].last_run
  /\ \E p \in DOMAIN st[1].files : p \notin DOMAIN Load(disk).state.files

----------------------------------------------------------------------------
(* The dependency graph: DependencyResolver over the modules group_files    *)
(* makes of a project, and build_dependency_graph over the structures of    *)
(* its parsed files.                                                        *)

\* The (path, hash) list of the project, scanned in `order`.
GraphFiles(order) == [i \in DOMAIN order |-> << order[i], HashFile(1) >>]

\* The lists of at most n (path, import) pairs.
Picks(n) == UNION { [1 .. k -> GraphPaths \X ImportInfos] : k \in 0 .. n }

\* DependencyResolver(grouper.group_files(files)), and the parsing of the
\* files into module_structures.
Construct ==
  /\ phase = "idle"
  /\ \E order \in Perms(GraphPaths), picks \in Picks(MaxImports) :
       LET grouped == GroupFiles(config, GraphFiles(order))
       IN /\ resolver' = [modules |-> grouped,
                          file_to_module |-> FileToModule(<< >>, grouped)]
          /\ module_structures' = ModuleStructures(grouped, picks)
  /\ phase' = "constructed"
  /\ UNCHANGED << pvars, avars, xvars, config, todo >>

\* build_dependency_graph is called.
BuildDependencyGraph ==
  /\ phase = "constructed"
  /\ todo' = Worklist(resolver.modules, module_structures)
  /\ phase' = "building"
  /\ UNCHANGED << pvars, avars, xvars, config, resolver, module_structures >>

\* One iteration of the innermost loop.
VisitNext ==
  /\ phase = "building"
  /\ todo # << >>
  /\ resolver' = [resolver EXCEPT
       !.modules = VisitImport(@, resolver.file_to_module, Head(todo))]
  /\ todo' = Tail(todo)
  /\ UNCHANGED << pvars, avars, xvars, config, module_structures, phase >>

\* build_dependency_graph returns.
Return ==
  /\ phase = "building"
  /\ todo = << >>
  /\ phase' = "built"
  /\ UNCHANGED << pvars, avars, xvars, config, resolver, module_structures, todo >>

NextGraph == Construct \/ BuildDependencyGraph \/ VisitNext \/ Return

SpecGraph == Init /\ [][NextGraph]_vars

\* The modules of the resolver.
Modules == Range(resolver.modules)

\* The non-system imports of the structures listed under `module` that
\* resolve_import maps to a module, as [path, imp, target].
ResolvedImports(module) ==
  LET mine == Get(module_structures, module.name, << >>)
      Target(k, i) == ResolveImport(resolver.file_to_module, mine[k].path,
                                    mine[k].imports[i].name)
  IN UNION { { [path |-> mine[k].path, imp |-> mine[k].imports[i],
                target |-> Target(k, i)[1]] :
                 i \in { n \in DOMAIN mine[k].imports :
                           /\ ~mine[k].imports[n].is_system
                           /\ Target(k, n) # NoModule } } :
             k \in DOMAIN mine }

\* C8: graph symmetry: for all modules A and B, A is in dependencies(B) if
\* and only if B is in dependents(A), during and after build_dependency_graph.
C8_GraphSymmetry ==
  \A A \in Modules, B \in Modules :
    A.name \in B.dependencies <=> B.name \in A.dependents

\* C8, witness: the graph is built and two modules depend on each other.
C8_Witness ==
  /\ phase = "built"
  /\ \E A \in Modules, B \in Modules :
       /\ A.name # B.name
       /\ A.name \in B.dependencies
       /\ B.name \in A.dependencies

\* C9: no self-edges: no module is in its own dependencies or in its own
\* dependents.
C9_NoSelfEdges ==
  \A M \in Modules : M.name \notin M.dependencies /\ M.name \notin M.dependents

\* C9, witness: the graph is built, and a file of a module that depends on
\* another one had an import that resolves to its own module.
C9_Witness ==
  /\ phase = "built"
  /\ \E M \in Modules :
       /\ M.dependencies # {}
       /\ \E e \in ResolvedImports(M) : e.target = M.name

\* C10: once the graph is built, dependencies(M) is exactly the set of the
\* modules T other than M that resolve_import gives for a non-system import
\* of a structure of M; system imports make no edge.
C10_ExactDependencies ==
  phase = "built"
  => \A M \in Modules :
       M.dependencies =
         { e.target : e \in { x \in ResolvedImports(M) : x.target # M.name } }

\* C10, witness: the graph is built, a module depends on another one, and a
\* system import whose text names a file of another module made no edge.
C10_Witness ==
  /\ phase = "built"
  /\ \E M \in Modules :
       /\ M.dependencies # {}
       /\ \E N \in Modules :
            /\ N.dependencies = {}
            /\ \E k \in DOMAIN Get(module_structures, N.name, << >>) :
                 LET structure == module_structures[N.name][k]
                 IN \E i \in DOMAIN structure.imports :
                      /\ structure.imports[i].is_system
                      /\ ResolveImport(resolver.file_to_module, structure.path,
                                       structure.imports[i].name) # NoModule
                      /\ ResolveImport(resolver.file_to_module, structure.path,
                                       structure.imports[i].name)[1] # N.name

----------------------------------------------------------------------------
(* Claims about resolve_import.                                             *)

\* The texts resolve_import is asked about.
ImportTexts == ImportNames \cup { <<"vector">> }

\* The modules with a member file whose bare filename is `text`.
OwnersByName(text) ==
  { M \in Modules :
      \E i \in DOMAIN M.files : BaseName(M.files[i][1]) = JoinWith(text, "/") }

\* The modules with the member file whose root-relative path is `path`.
OwnersByPath(path) ==
  { M \in Modules : \E i \in DOMAIN M.files : M.files[i][1] = path }

\* C11: resolve_import returns the module owning a member whose bare filename
\* is the text; when there is no such member, the module owning the member
\* whose root-relative path is the text resolved against the importing
\* file's directory; and None when both lookups fail.
C11_ResolveImport ==
  phase # "idle"
  => \A from \in GraphPaths, text \in ImportTexts :
       LET got == ResolveImport(resolver.file_to_module, from, text)
           import_path == ResolvePath(<< >>, RootParts \o Parent(from) \o text)
           rel == SubSeq(import_path, Len(RootParts) + 1, Len(import_path))
       IN IF OwnersByName(text) # {}
          THEN \E M \in OwnersByName(text) : got = Resolved(M.name)
          ELSE IF IsUnder(import_path, RootParts) /\ OwnersByPath(rel) # {}
          THEN \E M \in OwnersByPath(rel) : got = Resolved(M.name)
          ELSE got = NoModule

----------------------------------------------------------------------------
(* group_files on its own: ModuleGrouper(config).group_files(files), for    *)
(* every configuration and every batch of distinct files of a project with  *)
(* files at the root, in a directory called root, and one, two and three    *)
(* levels deep.                                                             *)

GroupPaths ==
  Paths \cup
  { <<"main.cpp">>,
    <<"root", "b.cpp">>,
    <<"src", "a.cpp">>,
    <<"src", "a.h">> }

\* config.modules: the directory strategy at three depths, the file strategy
\* and a strategy name that is neither.
GroupConfigs ==
  { [strategy |-> "directory", depth |-> d] : d \in 1 .. 3 }
  \cup { [strategy |-> "file", depth |-> 2], [strategy |-> "parent", depth |-> 2] }

\* The lists of at most n distinct paths.
Batches(n) ==
  { order \in UNION { [1 .. k -> GroupPaths] : k \in 0 .. n } :
      \A i \in DOMAIN order, j \in DOMAIN order : order[i] = order[j] => i = j }

\* ModuleGrouper(config).group_files(files), once per process: until a call
\* with files has been made.
GroupCall ==
  /\ batch = << >>
  /\ \E cfg \in GroupConfigs, order \in Batches(MaxBatch) :
       /\ grouper' = cfg
       /\ batch' = GraphFiles(order)
       /\ returned' = GroupFiles(cfg, GraphFiles(order))
  /\ UNCHANGED << pvars, gvars, xvars, config >>

NextGroup == GroupCall

SpecGroup == InitRace /\ [][NextGroup]_vars

----------------------------------------------------------------------------
(* Claims about group_files.                                                *)

\* The partition a list of modules stands for: the names, each with the set
\* of its member files.
Partition(modules) ==
  { [name |-> modules[i].name, files |-> Range(modules[i].files)] :
      i \in DOMAIN modules }

\* C12: grouping determinism: the files of the batch, given in any order
\* under the same strategy and depth, yield the same partition.
C12_GroupingDeterminism ==
  \A order \in Perms(Range(batch)) :
    Partition(GroupFiles(grouper, order)) = Partition(returned)

\* C12, witness: a batch of four files has been grouped into two modules or
\* more, one of them of two files or more.
C12_Witness ==
  /\ Len(batch) = 4
  /\ Len(returned) >= 2
  /\ \E i \in DOMAIN returned : Len(returned[i].files) >= 2

\* The names of a list of modules.
ModuleNames(modules) == { modules[i].name : i \in DOMAIN modules }

\* The paths of the files of the batch.
BatchPaths == { batch[i][1] : i \in DOMAIN batch }

\* C13: under directory(depth), a file with more segments than depth is in
\* the module named by its first depth segments, a shallower file with more
\* than one segment in the module named by all its segments but the last, a
\* file at the root in "root"; with depth 2 the files src/parser/a.cpp,
\* src/parser/b.cpp and src/codegen/c.cpp make src/parser and src/codegen.
C13_DirectoryNaming ==
  grouper.strategy = "directory"
  => /\ \A i \in DOMAIN returned : \A j \in DOMAIN returned[i].files :
          LET path == returned[i].files[j][1]
              kept == IF Len(path) > grouper.depth THEN grouper.depth
                      ELSE Len(path) - 1
          IN returned[i].name =
               IF kept = 0 THEN "root"
               ELSE JoinWith([k \in 1 .. kept |-> path[k]], "/")
     /\ (grouper.depth = 2 /\ BatchPaths = Paths)
        => ModuleNames(returned) = { "src/parser", "src/codegen" }

\* C13, witness: directory(2) has grouped a file at the root, a file one
\* directory deep and a file two directories deep.
C13_Witness ==
  /\ grouper = [strategy |-> "directory", depth |-> 2]
  /\ BatchPaths = { <<"main.cpp">>, <<"src", "a.cpp">>, <<"src", "parser", "a.cpp">> }
  /\ ModuleNames(returned) = { "root", "src", "src/parser" }

\* C14: under the file strategy every module has exactly one member file and
\* is named by that file's root-relative path without its extension.
C14_OneModulePerFile ==
  grouper.strategy = "file"
  => \A i \in DOMAIN returned :
       /\ Len(returned[i].files) = 1
       /\ LET path == returned[i].files[1][1]
          IN returned[i].name =
               JoinWith(Parent(path) \o << WithoutSuffix(BaseName(path)) >>, "/")

\* The place of a file in the batch.
Pos(file) == CHOOSE k \in DOMAIN batch : batch[k] = file

\* C17: group_files partitions the batch (every file is a member of exactly
\* one module, once, and nothing else is), returns the modules in the order
\* of their first files in the batch, and keeps the members of each module in
\* the order of the batch.
C17_PartitionInOrder ==
  /\ Len(Flatten([i \in DOMAIN returned |-> returned[i].files])) = Len(batch)
  /\ \A k \in DOMAIN batch :
       \E i \in DOMAIN returned : \E j \in DOMAIN returned[i].files :
         returned[i].files[j] = batch[k]
  /\ \A i \in DOMAIN returned : \A j \in DOMAIN returned[i].files :
       /\ returned[i].files[j] \in Range(batch)
       /\ \A n \in DOMAIN returned[i].files :
            j < n => Pos(returned[i].files[j]) < Pos(returned[i].files[n])
  /\ \A i \in DOMAIN returned : \A n \in DOMAIN returned :
       i < n => Pos(returned[i].files[1]) < Pos(returned[n].files[1])

\* C17, witness: four files have been grouped, and the second member of a
\* module came in the batch after the first member of the module behind it.
C17_Witness ==
  /\ Len(batch) = 4
  /\ \E i \in DOMAIN returned : \E n \in DOMAIN returned :
       /\ i < n
       /\ Len(returned[i].files) >= 2
       /\ Pos(returned[i].files[2]) > Pos(returned[n].files[1])

\* C20: every member file of a module lies in or below the module's path,
\* and the path of a module is the same for every order of the batch.
C20_ModulePath ==
  /\ \A i \in DOMAIN returned : \A j \in DOMAIN returned[i].files :
       IsUnder(returned[i].files[j][1], returned[i].path)
  /\ \A order \in Perms(Range(batch)) :
       LET other == GroupFiles(grouper, order)
       IN \A i \in DOMAIN returned : \A n \in DOMAIN other :
            other[n].name = returned[i].name => other[n].path = returned[i].path

----------------------------------------------------------------------------
(* Claims about the recorded state over several runs.                       *)

\* The hashes of the files recorded in `state` with module m.
RecordedHashes(state, m) ==
  { state.files[p].hash :
      p \in { q \in DOMAIN state.files : state.files[q].module = m } }

\* Every module of `state` lists exactly the hashes of the files recorded
\* with it.
SourceHashesComplete(state) ==
  \A m \in DOMAIN state.modules :
    Range(state.modules[m].source_hashes) = RecordedHashes(state, m)

\* C18: update() keeps the module records complete: when every module of the
\* state lists exactly the hashes of the files recorded with it, so it does
\* after update(), the members absent from the batch included.
C18_SourceHashesComplete ==
  [][\A r \in Procs :
       (pc[r] = "generated" /\ pc'[r] = "updated" /\ SourceHashesComplete(st[r]))
       => SourceHashesComplete(st'[r])]_vars

\* Whether the import `imp` of a file of `module` names, by bare filename, a
\* member file of that module.
NamesOwnFile(module, imp) ==
  /\ Len(imp.name) = 1
  /\ \E i \in DOMAIN module.files : BaseName(module.files[i][1]) = imp.name[1]

\* C19: once the graph is built, every edge M -> T comes from a non-system
\* import of M that resolves to T and does not name, by bare filename, a file
\* of M itself: such an import makes no edge, also when another module has a
\* file of the same bare filename.
C19_OwnFileMakesNoEdge ==
  phase = "built"
  => \A M \in Modules : \A T \in M.dependencies :
       \E e \in ResolvedImports(M) :
         e.target = T /\ ~NamesOwnFile(M, e.imp)

----------------------------------------------------------------------------
(* The phases of a run.                                                     *)

\* C15: the modules of a run are rendered only after build_dependency_graph
\* has returned for exactly these modules, that is, after every module's
\* FileStructures were produced and its dependencies and dependents resolved.
C15_ResolvedBeforeRendering ==
  [][\A r \in Procs :
       (pc[r] = "grouped" /\ docs' # docs)
       => /\ phase = "built"
          /\ [i \in DOMAIN resolver.modules |-> resolver.modules[i].name]
               = [i \in DOMAIN mods[r] |-> mods[r][i].name]]_vars

----------------------------------------------------------------------------
(* The commands that only report.                                           *)

\* A status command has run: an invocation started and ended in one step.
StatusStep ==
  /\ runs' # runs
  /\ \E r \in Procs :
       /\ pc'[r] \in {"clean", "stale", "aborted"}
       /\ \A q \in Procs \ {r} : pc'[q] = pc[q]

\* Invocation r, an update with --dry-run, has taken a step.
DryRunStep(r) ==
  /\ pc'[r] # pc[r]
  /\ flags[r].dry_run \/ flags'[r].dry_run

\* C16: no step of a dry-run update and no status command changes the state
\* file, writes a module document or writes the overview.
C16_ReportingWritesNothing ==
  [][(StatusStep \/ \E r \in Procs : DryRunStep(r))
       => /\ disk' = disk
          /\ docs' = docs
          /\ overview' = overview]_vars

\* C16, witness: after an update has saved a state and written documents,
\* a dry run over a tree with changed files has returned.
C16_Witness ==
  /\ pc[1] = "dryrun"
  /\ disk.kind = "object"
  /\ docs # {}
  /\ \E f \in CurrentFiles : GetFileHash(Load(disk).state, RelPath(f[1])) # f[2]

----------------------------------------------------------------------------
(* A call of CppParser.parse on its own.                                    *)

\* parse(path): tree-sitter reads the file and the three extractions fill
\* the FileStructure.
ParseCall ==
  /\ file_structure.language = ""
  /\ \E lead \in Leads, kinds \in Sources(MaxItems) :
       /\ ast' = TranslationUnit(lead, kinds)
       /\ file_structure' = Parse(SourcePath, TranslationUnit(lead, kinds))
  /\ UNCHANGED << pvars, gvars, avars, config >>

NextParse == ParseCall

SpecParse == InitRace /\ [][NextParse]_vars

----------------------------------------------------------------------------
(* Claims about the extraction.                                             *)

RECURSIVE Addresses(_, _)
\* The addresses of the nodes of the subtree of `node`, whose address is `at`.
Addresses(node, at) ==
  {at} \cup UNION { Addresses(node.children[i], Append(at, i)) :
                      i \in DOMAIN node.children }

\* The function-definition nodes of the parsed tree.
FunctionNodes ==
  { at \in Addresses(ast, << >>) : NodeAt(ast, at).type = "function_definition" }

\* Some node on the way from the parent of `at` to the root is a class or a
\* struct definition.
HasTypeAncestor(at) ==
  \E k \in 0 .. Len(at) - 1 : NodeAt(ast, SubSeq(at, 1, k)).type \in TypeNodes

\* The name the extractor finds for the function definition at `at`, << >>
\* when it finds none.
NameOf(at) ==
  LET node == NodeAt(ast, at)
      d == ChildByFieldName(node, "declarator")
  IN IF d = 0 THEN << >> ELSE FindFunctionName(node.children[d])

\* `info` is the record of the function definition at `at`: the definitions
\* of one source differ in their line spans.
Reports(info, at) ==
  /\ info.line_start = NodeAt(ast, at).row_start + 1
  /\ info.line_end = NodeAt(ast, at).row_end + 1

\* C21: every named function definition without a class or struct among its
\* ancestors is in FileStructure.functions, and no function definition with
\* such an ancestor is.
C21_TopLevelFunctions ==
  \A at \in FunctionNodes :
    IF HasTypeAncestor(at)
    THEN \A i \in DOMAIN file_structure.functions :
           ~Reports(file_structure.functions[i], at)
    ELSE NameOf(at) # << >>
         => \E i \in DOMAIN file_structure.functions :
              /\ Reports(file_structure.functions[i], at)
              /\ file_structure.functions[i].name = NameOf(at)

\* C21, witness: the parsed source has a function inside a namespace, which
\* is reported, and a method of a type, which is not.
C21_Witness ==
  /\ file_structure.language = "cpp"
  /\ \E at \in FunctionNodes :
       /\ Len(at) > 1
       /\ ~HasTypeAncestor(at)
       /\ \E i \in DOMAIN file_structure.functions :
            Reports(file_structure.functions[i], at)
  /\ \E at \in FunctionNodes : HasTypeAncestor(at) /\ NameOf(at) # << >>

\* The named class and struct nodes of the parsed tree.
NamedTypeNodes ==
  { at \in Addresses(ast, << >>) :
      /\ NodeAt(ast, at).type \in TypeNodes
      /\ ChildByFieldName(NodeAt(ast, at), "name") # 0 }

\* The named function definitions nested in the body of the type at `at`.
NestedIn(at) ==
  LET b == ChildByFieldName(NodeAt(ast, at), "body")
  IN { f \in FunctionNodes :
         /\ b # 0
         /\ Len(f) > Len(at) + 1
         /\ SubSeq(f, 1, Len(at) + 1) = Append(at, b)
         /\ NameOf(f) # << >> }

\* name, line_start and line_end of a record.
Span(info) ==
  [name |-> info.name, line_start |-> info.line_start,
   line_end |-> info.line_end]

RECURSIVE HoldsIdentifier(_)
\* The subtree of `node` has an identifier node.
HoldsIdentifier(node) ==
  \/ node.type = "identifier"
  \/ \E i \in DOMAIN node.children : HoldsIdentifier(node.children[i])

RECURSIVE TrailingComponent(_)
\* The last component of a qualified identifier, however often qualified.
TrailingComponent(node) ==
  LET name == node.children[ChildByFieldName(node, "name")]
  IN IF name.type = "qualified_identifier" THEN TrailingComponent(name)
     ELSE Text(name)

RECURSIVE Unwrapped(_)
RECURSIVE FirstUnwrapped(_)

\* The name of the first child that has one.
FirstUnwrapped(children) ==
  IF Len(children) = 0 THEN << >>
  ELSE IF Unwrapped(Head(children)) # << >> THEN Unwrapped(Head(children))
  ELSE FirstUnwrapped(Tail(children))

\* The name the unwrapping rules give a declarator: an identifier is the
\* name; a qualified identifier gives its trailing component; a function
\* declarator gives the name of its inner declarator; any other node gives
\* the first name found among its children.
Unwrapped(node) ==
  IF node.type = "identifier" THEN Text(node)
  ELSE IF node.type = "qualified_identifier"
          /\ ChildByFieldName(node, "name") # 0
  THEN TrailingComponent(node)
  ELSE IF node.type = "function_declarator"
          /\ ChildByFieldName(node, "declarator") # 0
  THEN Unwrapped(node.children[ChildByFieldName(node, "declarator")])
  ELSE FirstUnwrapped(node.children)

\* The records of functions and of methods in the FileStructure.
Reported ==
  Range(file_structure.functions)
  \cup UNION { Range(file_structure.classes[i].methods) :
                 i \in DOMAIN file_structure.classes }

\* The function definitions the extractor looks at: those outside every
\* type and those in the body of a named type.
Extracted ==
  { at \in FunctionNodes :
      \/ ~HasTypeAncestor(at)
      \/ \E type \in NamedTypeNodes :
           /\ ChildByFieldName(NodeAt(ast, type), "body") # 0
           /\ Len(at) > Len(type) + 1
           /\ SubSeq(at, 1, Len(type) + 1)
                = Append(type, ChildByFieldName(NodeAt(ast, type), "body")) }

\* C23: a function definition is left out as unnamed only when its
\* declarator holds no identifier, and the name recorded for it is the one
\* the unwrapping rules give: for A::B::f it is f.
C23_NameUnwrapping ==
  \A at \in Extracted :
    LET node == NodeAt(ast, at)
        declarator == node.children[ChildByFieldName(node, "declarator")]
    IN /\ HoldsIdentifier(declarator)
          => \E info \in Reported : Reports(info, at)
       /\ \A info \in Reported :
            (Reports(info, at) /\ Unwrapped(declarator) # << >>)
            => info.name = Unwrapped(declarator)

\* The access specifiers that precede, in the body of its type, the member
\* at `at`: their positions among the children of the body.
AccessBefore(at) ==
  LET body == NodeAt(ast, SubSeq(at, 1, Len(at) - 1))
  IN { k \in 1 .. at[Len(at)] - 1 : body.children[k].type = "access_specifier" }

\* The methods that stand in the body of a named type after an access
\* specifier.
TaggedMethods ==
  { at \in FunctionNodes :
      /\ NameOf(at) # << >>
      /\ \E type \in NamedTypeNodes :
           /\ ChildByFieldName(NodeAt(ast, type), "body") # 0
           /\ SubSeq(at, 1, Len(at) - 1)
                = Append(type, ChildByFieldName(NodeAt(ast, type), "body"))
      /\ AccessBefore(at) # {} }

\* The keyword of the nearest access specifier before the method at `at`.
NearestAccess(at) ==
  LET body == NodeAt(ast, SubSeq(at, 1, Len(at) - 1))
      k == CHOOSE n \in AccessBefore(at) : \A m \in AccessBefore(at) : m <= n
  IN Text(body.children[k])[1]

\* C24: every method the C++ extractor records is tagged public, protected
\* or private, never unknown, and a method that follows an access specifier
\* in the body of its type carries the visibility of the nearest one before
\* it.
C24_MethodVisibility ==
  /\ \A i \in DOMAIN file_structure.classes :
       \A j \in DOMAIN file_structure.classes[i].methods :
         file_structure.classes[i].methods[j].visibility
           \in {"public", "protected", "private"}
  /\ \A at \in TaggedMethods :
       \A i \in DOMAIN file_structure.classes :
         \A j \in DOMAIN file_structure.classes[i].methods :
           Reports(file_structure.classes[i].methods[j], at)
           => file_structure.classes[i].methods[j].visibility = NearestAccess(at)

====
